---- MODULE Spec2Model ----
(***************************************************************************)
(* The user-property controller of packages/api                            *)
(* (src/packages/api/src/controllers/userPropertiesController.ts): the    *)
(* PUT / (upsert), GET / (list) and DELETE / handlers over the            *)
(* userProperty and userPropertyAssignment tables.                        *)
(*                                                                         *)
(* A handler is a sequence of steps separated by its awaits: each store   *)
(* call is one atomic step, and the synchronous code before the first     *)
(* await is one step.                                                      *)
(***************************************************************************)
EXTENDS Integers, FiniteSets, TLC

VARIABLES
    props,        \* the userProperty table: id -> row, for the ids that exist
    assignments,  \* the userPropertyAssignment table: set of [userPropertyId, userId]
    now,          \* the wall clock read by new Date()
    pc,           \* handler -> position in the handler it runs
    req,          \* handler -> request.body / request.query of the call it runs
    date,         \* handler -> the local definitionUpdatedAt of the PUT it runs
    resp,         \* handler -> the reply it sent: [status, body]
    snap          \* a store recorded for comparison: << >> when none is recorded

vars == <<props, assignments, now, pc, req, date, resp, snap>>

----------------------------------------------------------------------------
(* Bounds and value sets *)

MaxTime == 2

Absent == "undefined"       \* a field the request omits
Null == "null"              \* a NULL column
NoDate == -1                \* definitionUpdatedAt undefined (payload) or unset (column)
BadDef == "bad"             \* a stored definition that fails UserPropertyDefinition
Malformed == "not-a-uuid"   \* an id the store rejects with P2023

Handlers == {"h1", "h2"}
Ids == {"p1", "p2"}
Users == {"u1"}
ProtectedNames == {"id"}
Times == 0..MaxTime

ReqIds == {Absent, "p1"}
ReqWorkspaces == {Absent, "w1"}
ReqNames == {Absent, "id", "n1", "n2"}
ReqDefinitions == {Absent, "d1"}
ReqExamples == {Absent, "e1"}
DeleteIds == Ids \cup {Malformed}
ListWorkspaces == {"w1", "w2"}

NoReq ==
    [op |-> "none", id |-> Absent, workspaceId |-> Absent, name |-> Absent,
     definition |-> Absent, exampleValue |-> Absent]

PutReqs ==
    [op : {"put"}, id : ReqIds, workspaceId : ReqWorkspaces, name : ReqNames,
     definition : ReqDefinitions, exampleValue : ReqExamples]

DeleteReq(id) == [NoReq EXCEPT !.op = "delete", !.id = id]

ListReq(workspaceId) == [NoReq EXCEPT !.op = "list", !.workspaceId = workspaceId]

NoResp == [status |-> 0, body |-> {}]

Reply(status, body) == [status |-> status, body |-> body]

----------------------------------------------------------------------------
(* The store as the handlers find it *)

Row(workspaceId, name, definition, definitionUpdatedAt, exampleValue) ==
    [workspaceId |-> workspaceId, name |-> name, definition |-> definition,
     definitionUpdatedAt |-> definitionUpdatedAt, exampleValue |-> exampleValue]

\* Rows the table may hold before any call: written at or before time 0.
SeedRows ==
    [workspaceId : {"w1", "w2"}, name : {"id", "n1"}, definition : {"d0", BadDef},
     definitionUpdatedAt : {NoDate, 0}, exampleValue : {Null, "e1"}]

\* Rows of p2, which no PUT of the model addresses.
OtherRows ==
    { Row("w1", "id", "d0", 0, Null),
      Row("w1", "n1", "d0", 0, "e1"),
      Row("w2", "n1", "d0", NoDate, Null) }

\* name is unique within a workspace
UniqueNames(store) ==
    \A i, j \in DOMAIN store :
        (i # j /\ store[i].workspaceId = store[j].workspaceId)
            => store[i].name # store[j].name

SeedStores ==
    { s \in ( [{} -> SeedRows] \cup [{"p1"} -> SeedRows] \cup [{"p2"} -> OtherRows]
              \cup { f \in [Ids -> SeedRows] : f["p2"] \in OtherRows } ) :
        UniqueNames(s) }

SeedAssignments(store) ==
    SUBSET { [userPropertyId |-> i, userId |-> u] : i \in DOMAIN store, u \in Users }

----------------------------------------------------------------------------
(* PUT /: the synchronous part, lines 36-43 *)

\* JavaScript truthiness of a request field: undefined and "" are falsy.
Truthy(x) == x # Absent /\ x # ""

\* const canCreate = workspaceId && name && definition
canCreate(r) == Truthy(r.workspaceId) /\ Truthy(r.name) /\ Truthy(r.definition)

AlwaysStamp(r, time) == time

\* const definitionUpdatedAt = definition ? new Date() : undefined
NewDefinitionUpdatedAt(r, time) == IF Truthy(r.definition) THEN time ELSE NoDate

\* protectedUserProperties.has(name)
IsProtected(name) == name \in ProtectedNames

RejectsOnCreateOnly(r) == canCreate(r) /\ IsProtected(r.name)

\* if (protectedUserProperties.has(name)) return reply.status(400).send()
Rejects(r) == IsProtected(r.name)

----------------------------------------------------------------------------
(* PUT /: the store call, lines 45-78 *)

\* The unique (workspaceId, name) index: another row already holds the pair.
NameTaken(store, id, workspaceId, name) ==
    \E i \in DOMAIN store \ {id} :
        store[i].workspaceId = workspaceId /\ store[i].name = name

\* A field of an update payload: undefined leaves the column as it is.
SetOrKeep(new, old) == IF new = Absent THEN old ELSE new

CreateDataNoExample(r) ==
    Row(r.workspaceId, r.name, r.definition, NoDate, Null)

\* create: { id, workspaceId, name, definition, exampleValue }
CreateData(r) ==
    Row(r.workspaceId, r.name, r.definition, NoDate,
        IF r.exampleValue = Absent THEN Null ELSE r.exampleValue)

UpdateDataNulling(old, r, definitionUpdatedAt) ==
    Row(SetOrKeep(r.workspaceId, old.workspaceId),
        SetOrKeep(r.name, old.name),
        SetOrKeep(r.definition, old.definition),
        IF definitionUpdatedAt = NoDate THEN old.definitionUpdatedAt
                                        ELSE definitionUpdatedAt,
        IF r.exampleValue = Absent THEN Null ELSE r.exampleValue)

\* update / data: { workspaceId, name, definition, definitionUpdatedAt, exampleValue }
UpdateData(old, r, definitionUpdatedAt) ==
    Row(SetOrKeep(r.workspaceId, old.workspaceId),
        SetOrKeep(r.name, old.name),
        SetOrKeep(r.definition, old.definition),
        IF definitionUpdatedAt = NoDate THEN old.definitionUpdatedAt
                                        ELSE definitionUpdatedAt,
        SetOrKeep(r.exampleValue, old.exampleValue))

Written(store, id, row) ==
    [i \in DOMAIN store \cup {id} |-> IF i = id THEN row ELSE store[i]]

Stored(store) == [ok |-> TRUE, store |-> store]

Faulted(store) == [ok |-> FALSE, store |-> store]

\* prisma().userProperty.update({ where: { id }, data })
Update(store, r, definitionUpdatedAt) ==
    IF r.id \notin DOMAIN store
    THEN Faulted(store)        \* no id given, or no such record (P2025)
    ELSE LET row == UpdateData(store[r.id], r, definitionUpdatedAt)
         IN  IF NameTaken(store, r.id, row.workspaceId, row.name)
             THEN Faulted(store)
             ELSE Stored(Written(store, r.id, row))

\* prisma().userProperty.upsert({ where: { id }, create, update })
Upsert(store, r, definitionUpdatedAt) ==
    IF r.id \in DOMAIN store
    THEN Update(store, r, definitionUpdatedAt)
    ELSE IF NameTaken(store, r.id, r.workspaceId, r.name)
         THEN Faulted(store)
         ELSE Stored(Written(store, r.id, CreateData(r)))

\* if (canCreate && id) upsert else update
Persist(store, r, definitionUpdatedAt) ==
    IF canCreate(r) /\ Truthy(r.id)
    THEN Upsert(store, r, definitionUpdatedAt)
    ELSE Update(store, r, definitionUpdatedAt)

----------------------------------------------------------------------------
(* PUT /: the reply, lines 80-97 *)

\* schemaValidate(userProperty.definition, UserPropertyDefinition).isOk()
SchemaValid(definition) == definition # BadDef

Resource(id, row) ==
    [id |-> id, name |-> row.name, workspaceId |-> row.workspaceId,
     definition |-> row.definition,
     exampleValue |-> IF row.exampleValue = Null THEN Absent ELSE row.exampleValue]

PutReply(id, row) ==
    IF SchemaValid(row.definition) THEN Reply(200, {Resource(id, row)})
                                   ELSE Reply(500, {})

----------------------------------------------------------------------------
(* GET /: findAllUserProperties({ workspaceId }) *)

FindAllUserProperties(store, workspaceId) ==
    { Resource(i, store[i]) : i \in { j \in DOMAIN store :
                                        store[j].workspaceId = workspaceId } }

----------------------------------------------------------------------------
(* DELETE /: the two deleteMany calls and the reply, lines 177-228 *)

DeleteNoAssignments(asg, store, id) == asg

\* userPropertyAssignment.deleteMany: userPropertyId = id AND the owning
\* property's name notIn protectedUserProperties
DeleteAssignmentsWhere(asg, store, id) ==
    { a \in asg :
        ~ ( a.userPropertyId = id
            /\ a.userPropertyId \in DOMAIN store
            /\ ~ IsProtected(store[a.userPropertyId].name) ) }

DeletePropertiesOfAnyName(store, id) ==
    [i \in DOMAIN store \ {id} |-> store[i]]

\* userProperty.deleteMany: id = id AND name notIn protectedUserProperties
DeletePropertiesWhere(store, id) ==
    [i \in { j \in DOMAIN store : ~ (j = id /\ ~ IsProtected(store[j].name)) }
        |-> store[i]]

\* response.count
DeletedCount(before, after) == Cardinality(DOMAIN before \ DOMAIN after)

AlwaysDeleted(deletedCount) == 204

\* if (deletedCount <= 0) 404 else 204
DeleteStatus(deletedCount) == IF deletedCount <= 0 THEN 404 ELSE 204

----------------------------------------------------------------------------
(* The handlers, step by step *)

Goto(p, at) == pc' = [pc EXCEPT ![p] = at]

Send(p, reply) == resp' = [resp EXCEPT ![p] = reply] /\ Goto(p, "done")

\* PUT /, lines 36-43: destructure the body, read the clock, check the name.
PutEnter(p, r) ==
    /\ req' = [req EXCEPT ![p] = r]
    /\ date' = [date EXCEPT ![p] = NewDefinitionUpdatedAt(r, now)]
    /\ IF Rejects(r)
       THEN Send(p, Reply(400, {}))
       ELSE Goto(p, "put") /\ resp' = [resp EXCEPT ![p] = NoResp]
    /\ UNCHANGED <<props, assignments, now>>

PutBegin(p, r) == pc[p] = "idle" /\ PutEnter(p, r) /\ UNCHANGED snap

\* PUT /, lines 45-97: the store call returns; validate and reply. A store
\* fault propagates as a 500.
PutPersist(p) ==
    /\ pc[p] = "put"
    /\ LET out == Persist(props, req[p], date[p])
       IN  /\ props' = out.store
           /\ Send(p, IF out.ok THEN PutReply(req[p].id, out.store[req[p].id])
                               ELSE Reply(500, {}))
    /\ UNCHANGED <<assignments, now, req, date, snap>>

\* GET /, lines 149-159
List(p, workspaceId) ==
    /\ pc[p] = "idle"
    /\ req' = [req EXCEPT ![p] = ListReq(workspaceId)]
    /\ Send(p, Reply(200, FindAllUserProperties(props, workspaceId)))
    /\ UNCHANGED <<props, assignments, now, date, snap>>

\* DELETE /, line 177
DeleteEnter(p, id) ==
    /\ req' = [req EXCEPT ![p] = DeleteReq(id)]
    /\ date' = [date EXCEPT ![p] = NoDate]
    /\ resp' = [resp EXCEPT ![p] = NoResp]
    /\ Goto(p, "deleteAssignments")
    /\ UNCHANGED <<props, assignments, now>>

DeleteBegin(p, id) == pc[p] = "idle" /\ DeleteEnter(p, id) /\ UNCHANGED snap

\* DELETE /, lines 181-196, and the catch of P2023 at lines 212-219
DeleteAssignments(p) ==
    /\ pc[p] = "deleteAssignments"
    /\ IF req[p].id = Malformed
       THEN Send(p, Reply(404, {})) /\ UNCHANGED assignments
       ELSE /\ assignments' = DeleteAssignmentsWhere(assignments, props, req[p].id)
            /\ Goto(p, "deleteProperty")
            /\ UNCHANGED resp
    /\ UNCHANGED <<props, now, req, date, snap>>

\* DELETE /, lines 197-211 and 224-228
DeleteProperty(p) ==
    /\ pc[p] = "deleteProperty"
    /\ props' = DeletePropertiesWhere(props, req[p].id)
    /\ Send(p, Reply(DeleteStatus(DeletedCount(props, props')), {}))
    /\ UNCHANGED <<assignments, now, req, date, snap>>

\* Any other store error: the awaited call throws, the handler rethrows (PUT:
\* nothing catches; DELETE: line 221) and the request ends in a 500.
StoreFault(p) ==
    /\ pc[p] \in {"put", "deleteAssignments", "deleteProperty"}
    /\ Send(p, Reply(500, {}))
    /\ UNCHANGED <<props, assignments, now, req, date, snap>>

\* The reply is out; the handler's locals are gone.
Return(p) ==
    /\ pc[p] = "done"
    /\ pc' = [pc EXCEPT ![p] = "idle"]
    /\ req' = [req EXCEPT ![p] = NoReq]
    /\ date' = [date EXCEPT ![p] = NoDate]
    /\ resp' = [resp EXCEPT ![p] = NoResp]
    /\ UNCHANGED <<props, assignments, now, snap>>

\* The caller sends the request it has just been answered once more.
Retry(p) ==
    /\ pc[p] = "done"
    /\ snap = << >>
    /\ req[p].op \in {"put", "delete"}
    /\ snap' = <<props, assignments>>
    /\ IF req[p].op = "put" THEN PutEnter(p, req[p])
                            ELSE DeleteEnter(p, req[p].id)

Tick ==
    /\ now < MaxTime
    /\ now' = now + 1
    /\ UNCHANGED <<props, assignments, pc, req, date, resp, snap>>

----------------------------------------------------------------------------
(* Specifications *)

Idle ==
    /\ now = 0
    /\ pc = [p \in Handlers |-> "idle"]
    /\ req = [p \in Handlers |-> NoReq]
    /\ date = [p \in Handlers |-> NoDate]
    /\ resp = [p \in Handlers |-> NoResp]

Init ==
    /\ props \in SeedStores
    /\ assignments \in SeedAssignments(props)
    /\ Idle
    /\ snap = << >>

\* One request at a time: every call runs to its reply before the next starts.
Next ==
    \/ Tick
    \/ \E r \in PutReqs : PutBegin("h1", r)
    \/ PutPersist("h1")
    \/ \E w \in ListWorkspaces : List("h1", w)
    \/ \E id \in DeleteIds : DeleteBegin("h1", id)
    \/ DeleteAssignments("h1")
    \/ DeleteProperty("h1")
    \/ StoreFault("h1")
    \/ Return("h1")

Spec == Init /\ [][Next]_vars

\* Two handlers at once, their steps interleaved in any order.
RacePuts ==
    { r \in PutReqs : r.id = "p1" /\ r.name # "n2" /\ r.exampleValue = Absent }

RaceStores == { s \in SeedStores : "p2" \notin DOMAIN s }

InitConc ==
    /\ props \in RaceStores
    /\ assignments \in SeedAssignments(props)
    /\ Idle
    /\ snap = << >>

NextConc ==
    \/ Tick
    \/ \E p \in Handlers :
        \/ \E r \in RacePuts : PutBegin(p, r)
        \/ PutPersist(p)
        \/ \E id \in DeleteIds : DeleteBegin(p, id)
        \/ DeleteAssignments(p)
        \/ DeleteProperty(p)
        \/ StoreFault(p)
        \/ Return(p)

SpecConc == InitConc /\ [][NextConc]_vars

\* Two DELETE calls and nothing else; snap holds the store they started from.
InitDel ==
    /\ props \in SeedStores
    /\ assignments \in SeedAssignments(props)
    /\ Idle
    /\ snap = <<props, assignments>>

NextDel ==
    \E p \in Handlers :
        \/ \E id \in DeleteIds : DeleteBegin(p, id)
        \/ DeleteAssignments(p)
        \/ DeleteProperty(p)

SpecDel == InitDel /\ [][NextDel]_vars

\* One call answered, then the same request once more; snap holds the store
\* the first call left.
NextRetry ==
    \/ Tick
    \/ \E r \in PutReqs : PutBegin("h1", r)
    \/ PutPersist("h1")
    \/ \E id \in DeleteIds : DeleteBegin("h1", id)
    \/ DeleteAssignments("h1")
    \/ DeleteProperty("h1")
    \/ Retry("h1")

SpecRetry == Init /\ [][NextRetry]_vars

----------------------------------------------------------------------------
(* Properties *)

TypeOK ==
    /\ DOMAIN props \subseteq Ids
    /\ \A i \in DOMAIN props :
        /\ props[i].definitionUpdatedAt \in {NoDate} \cup Times
        /\ props[i].definitionUpdatedAt <= now
    /\ UniqueNames(props)
    /\ now \in Times
    /\ \A p \in Handlers :
        /\ pc[p] \in {"idle", "put", "deleteAssignments", "deleteProperty", "done"}
        /\ resp[p].status \in {0, 200, 204, 400, 404, 500}

\* C1: a row whose stored name is protected is never changed or removed by a
\* step of any handler, and no step creates a row with a protected name or
\* renames a row into one.
C1_ProtectedRowsUntouched ==
    [][ /\ \A i \in DOMAIN props :
            IsProtected(props[i].name)
                => (i \in DOMAIN props' /\ props'[i] = props[i])
        /\ \A i \in DOMAIN props' :
            IsProtected(props'[i].name)
                => (i \in DOMAIN props /\ props[i] = props'[i]) ]_vars

\* C2: a PUT whose name is protected is answered 400 in the step that reads
\* the request, whatever its other fields, and that step writes nothing.
C2_ProtectedNameRejected ==
    [][ \A p \in Handlers :
            (pc[p] = "idle" /\ req'[p].op = "put" /\ IsProtected(req'[p].name))
                => /\ pc'[p] = "done"
                   /\ resp'[p].status = 400
                   /\ props' = props
                   /\ assignments' = assignments ]_vars

C2_Witness ==
    \E p \in Handlers :
        /\ pc[p] = "done" /\ req[p].op = "put" /\ resp[p].status = 400
        /\ IsProtected(req[p].name)
        /\ req[p].id \in DOMAIN props /\ canCreate(req[p])

ProtectedTarget(p) ==
    /\ req[p].op = "delete"
    /\ req[p].id \in DOMAIN props
    /\ IsProtected(props[req[p].id].name)

\* C3: when the row a DELETE addresses has a protected name, neither
\* deleteMany step removes a row or an assignment, and the call is answered 404.
C3_ProtectedDeleteNotFound ==
    [][ \A p \in Handlers :
            /\ (DeleteAssignments(p) /\ ProtectedTarget(p))
                 => (assignments' = assignments /\ props' = props)
            /\ (DeleteProperty(p) /\ ProtectedTarget(p))
                 => /\ assignments' = assignments
                    /\ props' = props
                    /\ resp'[p].status = 404 ]_vars

C3_Witness ==
    \E p \in Handlers :
        /\ pc[p] = "done" /\ resp[p].status = 404
        /\ ProtectedTarget(p)
        /\ \E a \in assignments : a.userPropertyId = req[p].id

\* C4: a PUT without id that carries workspaceId, an unprotected name and a
\* definition creates a row, which a list of the workspace then shows.
C4_CreateWithoutId ==
    [][ \A p \in Handlers :
            ( /\ PutPersist(p)
              /\ req[p].id = Absent
              /\ canCreate(req[p])
              /\ ~ IsProtected(req[p].name)
              /\ ~ \E i \in DOMAIN props :
                     /\ props[i].workspaceId = req[p].workspaceId
                     /\ props[i].name = req[p].name )
                => \E i \in DOMAIN props' \ DOMAIN props :
                     /\ props'[i].workspaceId = req[p].workspaceId
                     /\ props'[i].name = req[p].name
                     /\ props'[i].definition = req[p].definition
                     /\ Resource(i, props'[i])
                            \in FindAllUserProperties(props', req[p].workspaceId) ]_vars

Listed(store, id) ==
    \E w \in ListWorkspaces : \E x \in FindAllUserProperties(store, w) : x.id = id

\* C5: the property-row delete answers 204 exactly when an unprotected row
\* with the id exists at that step; then the row and its assignments are gone
\* and no list shows it; otherwise it answers 404 and removes no row.
C5_DeleteOutcome ==
    [][ \A p \in Handlers :
            DeleteProperty(p) =>
                LET id == req[p].id
                    hit == id \in DOMAIN props /\ ~ IsProtected(props[id].name)
                IN  /\ (resp'[p].status = 204) <=> hit
                    /\ hit => /\ id \notin DOMAIN props'
                              /\ \A a \in assignments' : a.userPropertyId # id
                              /\ ~ Listed(props', id)
                              /\ \A i \in DOMAIN props \ {id} :
                                    i \in DOMAIN props' /\ props'[i] = props[i]
                    /\ ~ hit => (resp'[p].status = 404 /\ props' = props) ]_vars

C5_Witness ==
    \E p \in Handlers :
        /\ pc[p] = "done" /\ req[p].op = "delete" /\ resp[p].status = 204
        /\ req[p].id \notin DOMAIN props
        /\ DOMAIN props # {}

\* C6: a PUT that the store accepts on an id that exists sets
\* definitionUpdatedAt to the time the handler read, which is not before the
\* row's previous value, when it carries a definition, and keeps the previous
\* value when it carries none; a PUT that inserts leaves it unset.
C6_DefinitionUpdatedAt ==
    [][ \A p \in Handlers :
            (PutPersist(p) /\ Persist(props, req[p], date[p]).ok) =>
                LET id == req[p].id
                IN  IF id \in DOMAIN props
                    THEN IF req[p].definition # Absent
                         THEN /\ props'[id].definitionUpdatedAt = date[p]
                              /\ date[p] \in Times /\ date[p] <= now
                              /\ date[p] >= props[id].definitionUpdatedAt
                         ELSE props'[id].definitionUpdatedAt
                                  = props[id].definitionUpdatedAt
                    ELSE props'[id].definitionUpdatedAt = NoDate ]_vars

C6_Witness ==
    \E p \in Handlers :
        /\ pc[p] = "done" /\ req[p].op = "put" /\ resp[p].status = 200
        /\ req[p].definition # Absent
        /\ props[req[p].id].definitionUpdatedAt = date[p]
        /\ date[p] > 0

\* A store with every definitionUpdatedAt taken as set or unset.
SetOrUnset(store) ==
    [i \in DOMAIN store |->
        [store[i] EXCEPT !.definitionUpdatedAt = IF @ = NoDate THEN NoDate ELSE 0]]

Retried(p) == pc[p] = "done" /\ snap # << >>

\* C7: the same PUT or DELETE sent twice in a row leaves the rows, with
\* definitionUpdatedAt taken as set or unset, and the assignments as sending
\* it once left them.
C7_RetrySameStore ==
    \A p \in Handlers :
        Retried(p) =>
            (SetOrUnset(props) = SetOrUnset(snap[1]) /\ assignments = snap[2])

\* The first call inserted the row and the second one updated it.
InsertedThenStamped(p) ==
    /\ req[p].op = "put"
    /\ canCreate(req[p])
    /\ req[p].id \in DOMAIN snap[1]
    /\ snap[1][req[p].id].definitionUpdatedAt = NoDate
    /\ date[p] # NoDate
    /\ props = [snap[1] EXCEPT ![req[p].id].definitionUpdatedAt = date[p]]

\* C7 (amended): as C7, except that when the first call inserted the row, the
\* second one sets the definitionUpdatedAt the insert left unset, and changes
\* nothing else.
C7_RetrySameStoreButInsertStamp ==
    \A p \in Handlers :
        Retried(p) =>
            /\ assignments = snap[2]
            /\ SetOrUnset(props) = SetOrUnset(snap[1]) \/ InsertedThenStamped(p)

C7_Witness ==
    \E p \in Handlers :
        /\ Retried(p) /\ InsertedThenStamped(p)
        /\ resp[p].status = 200
        /\ req[p].exampleValue # Absent

C9_OmittedFieldsKept ==
    [][ \A p \in Handlers :
            (PutPersist(p) /\ ~ (canCreate(req[p]) /\ Truthy(req[p].id))) =>
                /\ DOMAIN props' = DOMAIN props
                /\ \A i \in DOMAIN props \ {req[p].id} : props'[i] = props[i]
                /\ req[p].id \in DOMAIN props =>
                     LET old == props[req[p].id]
                         new == props'[req[p].id]
                     IN  /\ req[p].workspaceId = Absent
                              => new.workspaceId = old.workspaceId
                         /\ req[p].name = Absent => new.name = old.name
                         /\ req[p].definition = Absent
                              => /\ new.definition = old.definition
                                 /\ new.definitionUpdatedAt = old.definitionUpdatedAt
                         /\ req[p].exampleValue = Absent
                              => new.exampleValue = old.exampleValue ]_vars

C9_Witness ==
    \E p \in Handlers :
        /\ pc[p] = "done" /\ req[p].op = "put" /\ resp[p].status = 200
        /\ ~ canCreate(req[p])
        /\ req[p].definition # Absent
        /\ req[p].name = Absent /\ req[p].workspaceId = Absent
        /\ req[p].exampleValue = Absent
        /\ props[req[p].id].exampleValue # Null
        /\ props[req[p].id].workspaceId = "w2"
        /\ props[req[p].id].definition = req[p].definition

BothDeleted(id) ==
    /\ \A p \in Handlers : pc[p] = "done" /\ req[p] = DeleteReq(id)
    /\ id \in DOMAIN snap[1]
    /\ ~ IsProtected(snap[1][id].name)

\* C10: of two DELETE calls on the id of an unprotected row, interleaved in
\* any order, one is answered 204 and the other 404, and afterwards the row
\* and all its assignments are gone.
C10_OneDeleteWins ==
    \A id \in Ids :
        BothDeleted(id) =>
            /\ \E p, q \in Handlers :
                 p # q /\ resp[p].status = 204 /\ resp[q].status = 404
            /\ id \notin DOMAIN props
            /\ \A a \in assignments : a.userPropertyId # id

C10_Witness ==
    \E id \in Ids :
        /\ BothDeleted(id)
        /\ \E a \in snap[2] : a.userPropertyId = id
        /\ resp["h2"].status = 204

====
